---- MODULE Spec2Model ----
(***************************************************************************)
(* The Gilded Rose rule engine: GenericItem::update_quality over the two   *)
(* item shapes (Item, ItemV2), the QualityBehavior variants and the        *)
(* GildedRose batch driver.  Quantities are Rust i32 values; arithmetic    *)
(* that leaves the i32 range panics when the crate is built with overflow  *)
(* checks (the dev/test profile) and wraps otherwise (the release          *)
(* profile).                                                               *)
(***************************************************************************)
EXTENDS Integers, Sequences, FiniteSets, TLC

VARIABLES items, overflow_checks, panicked, ticks, resolved, hist,
          snapshot, pending

vars == <<items, overflow_checks, panicked, ticks, resolved, hist,
          snapshot, pending>>

(***************************************************************************)
(* Bounds of the model.                                                    *)
(***************************************************************************)
MaxTicks == 3

(***************************************************************************)
(* i32                                                                     *)
(***************************************************************************)
I32_MAX == 2147483647
I32_MIN == -I32_MAX - 1

\* a + b leaves the i32 range
add_overflows(a, b) ==
    \/ b > 0 /\ a > I32_MAX - b
    \/ b < 0 /\ a < I32_MIN - b

\* a - b leaves the i32 range
sub_overflows(a, b) ==
    \/ b > 0 /\ a < I32_MIN + b
    \/ b < 0 /\ a > I32_MAX + b

\* a + b modulo 2^32, as a two's complement i32
wrapping_add(a, b) ==
    IF ~add_overflows(a, b) THEN a + b
    ELSE IF b > 0 THEN (a + I32_MIN) + (b + I32_MIN)
    ELSE (a - I32_MIN) + (b - I32_MIN)

\* a - b modulo 2^32, as a two's complement i32
wrapping_sub(a, b) ==
    IF ~sub_overflows(a, b) THEN a - b
    ELSE IF b > 0 THEN ((a - I32_MIN) + (I32_MAX - b)) + 1
    ELSE ((a - I32_MAX) + (I32_MIN - b)) - 1

\* `a + b` as compiled: a panic under overflow checks, the wrapped sum otherwise
i32_add(a, b, oc) ==
    IF add_overflows(a, b) /\ oc THEN [ok |-> FALSE, v |-> 0]
    ELSE [ok |-> TRUE, v |-> wrapping_add(a, b)]

\* `a - b` as compiled
i32_sub(a, b, oc) ==
    IF sub_overflows(a, b) /\ oc THEN [ok |-> FALSE, v |-> 0]
    ELSE [ok |-> TRUE, v |-> wrapping_sub(a, b)]

\* `a * 2` as compiled
i32_mul2(a, oc) == i32_add(a, a, oc)

\* clamp without its upper bound
clamp_unbounded_above(v, min, max) ==
    IF v < min THEN min ELSE v

\* Ord::clamp after its assert!(min <= max)
clamp(v, min, max) ==
    IF v < min THEN min ELSE IF v > max THEN max ELSE v

(***************************************************************************)
(* QualityBehavior                                                         *)
(***************************************************************************)
Constant == [kind |-> "Constant"]

Decrease(rate, min_quality, max_quality) ==
    [kind |-> "Decrease", rate |-> rate,
     min_quality |-> min_quality, max_quality |-> max_quality]

Increase(rate, min_quality, max_quality) ==
    [kind |-> "Increase", rate |-> rate,
     min_quality |-> min_quality, max_quality |-> max_quality]

TimeSensitiveIncrease(min_quality, max_quality, thresholds, drop_quality_after) ==
    [kind |-> "TimeSensitiveIncrease",
     min_quality |-> min_quality, max_quality |-> max_quality,
     thresholds |-> thresholds, drop_quality_after |-> drop_quality_after]

Threshold(days_left, increase_rate) ==
    [days_left |-> days_left, increase_rate |-> increase_rate]

decrease_default_quality(rate) == Decrease(rate, 0, 50)

increase_default_quality(rate) == Increase(rate, 0, 50)

new_time_sensitive_default_quality(thresholds) ==
    TimeSensitiveIncrease(0, 50, thresholds, 0)

standard_decrease == decrease_default_quality(1)

standard_increase == increase_default_quality(1)

conjured_items == decrease_default_quality(2)

backstage_passes_items ==
    new_time_sensitive_default_quality(<<Threshold(10, 2), Threshold(5, 3)>>)

(***************************************************************************)
(* Names are character sequences; str::contains is substring search.       *)
(***************************************************************************)
AGED_BRIE == <<"A","g","e","d"," ","B","r","i","e">>
BACKSTAGE == <<"B","a","c","k","s","t","a","g","e"," ","p","a","s","s","e","s"," ","t","o"," ","a"," ","T","A","F","K","A","L","8","0","E","T","C"," ","c","o","n","c","e","r","t">>
SULFURAS == <<"S","u","l","f","u","r","a","s",","," ","H","a","n","d"," ","o","f"," ","R","a","g","n","a","r","o","s">>
CONJURED == <<"C","o","n","j","u","r","e","d">>

contains(name, pat) ==
    \E i \in 0..(Len(name) - Len(pat)) : SubSeq(name, i + 1, i + Len(pat)) = pat

(***************************************************************************)
(* Item and ItemV2                                                         *)
(***************************************************************************)
Item_new(name, sell_in, quality) ==
    [name |-> name, sell_in |-> sell_in, quality |-> quality]

ItemV2_new(name, sell_in, quality, behavior, now) ==
    [name |-> name, sell_in |-> sell_in, quality |-> quality,
     behavior |-> behavior, timestamp |-> now]

IsV2(self) == "behavior" \in DOMAIN self

\* the name tests with Conjured tried first
Item_get_behavior_conjured_first(self) ==
    IF contains(self.name, CONJURED) THEN conjured_items
    ELSE IF contains(self.name, AGED_BRIE) THEN standard_increase
    ELSE IF contains(self.name, BACKSTAGE) THEN backstage_passes_items
    ELSE IF contains(self.name, SULFURAS) THEN Constant
    ELSE decrease_default_quality(1)

\* impl GenericItem for Item
Item_get_behavior(self) ==
    IF contains(self.name, AGED_BRIE) THEN standard_increase
    ELSE IF contains(self.name, BACKSTAGE) THEN backstage_passes_items
    ELSE IF contains(self.name, SULFURAS) THEN Constant
    ELSE IF contains(self.name, CONJURED) THEN conjured_items
    ELSE decrease_default_quality(1)

\* impl GenericItem for ItemV2
ItemV2_get_behavior(self) == self.behavior

get_behavior(self) ==
    IF IsV2(self) THEN ItemV2_get_behavior(self) ELSE Item_get_behavior(self)

from_item(item, now) ==
    ItemV2_new(item.name, item.sell_in, item.quality, Item_get_behavior(item), now)

get_quality(self) == self.quality

get_sell_in(self) == self.sell_in

\* ItemV2::set_quality also refreshes the timestamp
set_quality(self, quality, now) ==
    IF IsV2(self)
    THEN [self EXCEPT !.quality = quality, !.timestamp = now]
    ELSE [self EXCEPT !.quality = quality]

set_sell_in(self, sell_in) == [self EXCEPT !.sell_in = sell_in]


(***************************************************************************)
(* GenericItem::update_quality                                             *)
(***************************************************************************)
Some(v) == [tag |-> "Some", v |-> v]

None == [tag |-> "None", v |-> 0]

\* the call unwinds: an arithmetic overflow or clamp's assertion
Panic(why) == [tag |-> "Panic", v |-> why]

\* (v).clamp(min, max), v being the outcome of the arithmetic before it
clamped(r, min, max) ==
    IF ~r.ok THEN Panic("overflow")
    ELSE IF min > max THEN Panic("clamp")
    ELSE Some(clamp(r.v, min, max))

\* Iterator::min_by_key: of several equally small keys the first one wins
RECURSIVE min_by_key(_, _)
min_by_key(ts, best) ==
    IF ts = <<>> THEN best
    ELSE min_by_key(Tail(ts),
                    IF best.days_left > Head(ts).days_left THEN Head(ts) ELSE best)

\* thresholds.iter().filter(..).min_by_key(..).map_or(1, ..)
increase_of(thresholds, sell_in) ==
    LET qualifying == SelectSeq(thresholds, LAMBDA t : sell_in <= t.days_left)
    IN IF qualifying = <<>> THEN 1
       ELSE min_by_key(Tail(qualifying), Head(qualifying)).increase_rate

\* the TimeSensitiveIncrease arm with the drop tested by < instead of <=
time_sensitive_quality_strict(self, behavior, oc) ==
    IF get_sell_in(self) < behavior.drop_quality_after
    THEN Some(behavior.min_quality)
    ELSE LET increase == increase_of(behavior.thresholds, get_sell_in(self))
         IN clamped(i32_add(get_quality(self), increase, oc),
                    behavior.min_quality, behavior.max_quality)

\* the TimeSensitiveIncrease arm of the match
time_sensitive_quality(self, behavior, oc) ==
    IF get_sell_in(self) <= behavior.drop_quality_after
    THEN Some(behavior.min_quality)
    ELSE LET increase == increase_of(behavior.thresholds, get_sell_in(self))
         IN clamped(i32_add(get_quality(self), increase, oc),
                    behavior.min_quality, behavior.max_quality)

\* the `match behavior` of update_quality
new_quality(self, behavior, oc) ==
    CASE behavior.kind = "Decrease" ->
           LET actual_rate == IF get_sell_in(self) <= 0
                              THEN i32_mul2(behavior.rate, oc)
                              ELSE [ok |-> TRUE, v |-> behavior.rate]
           IN IF ~actual_rate.ok THEN Panic("overflow")
              ELSE clamped(i32_sub(get_quality(self), actual_rate.v, oc),
                           behavior.min_quality, behavior.max_quality)
      [] behavior.kind = "Increase" ->
           clamped(i32_add(get_quality(self), behavior.rate, oc),
                   behavior.min_quality, behavior.max_quality)
      [] behavior.kind = "TimeSensitiveIncrease" ->
           time_sensitive_quality(self, behavior, oc)
      [] behavior.kind = "Constant" -> None

\* self.set_sell_in(self.get_sell_in() - 1)
decrement_sell_in(self, oc, wrote) ==
    LET d == i32_sub(get_sell_in(self), 1, oc)
    IN IF ~d.ok
       THEN [item |-> self, panic |-> "overflow", wrote |-> wrote]
       ELSE [item |-> set_sell_in(self, d.v), panic |-> "none", wrote |-> wrote]

\* the day passing for every item, with or without a new quality
apply_new_quality_any(self, nq, oc, now) ==
    CASE nq.tag = "Panic" -> [item |-> self, panic |-> nq.v, wrote |-> FALSE]
      [] nq.tag = "None" -> decrement_sell_in(self, oc, FALSE)
      [] nq.tag = "Some" -> decrement_sell_in(set_quality(self, nq.v, now), oc, TRUE)

\* `if let Some(quality) = new_quality { set_quality; set_sell_in }`
apply_new_quality(self, nq, oc, now) ==
    CASE nq.tag = "Panic" -> [item |-> self, panic |-> nq.v, wrote |-> FALSE]
      [] nq.tag = "None" -> [item |-> self, panic |-> "none", wrote |-> FALSE]
      [] nq.tag = "Some" -> decrement_sell_in(set_quality(self, nq.v, now), oc, TRUE)

\* One call of update_quality on one item: the item as the call leaves it,
\* whether it unwound, and whether set_quality was reached.
update_quality(self, oc, now) ==
    LET behavior == get_behavior(self)
    IN apply_new_quality(self, new_quality(self, behavior, oc), oc, now)

(***************************************************************************)
(* GildedRose                                                              *)
(***************************************************************************)
\* items.iter_mut().for_each(|item| item.update_quality()), from item k on;
\* log holds the outcome of every call made, in order
RECURSIVE for_each(_, _, _, _, _)
for_each(its, k, oc, now, log) ==
    IF k > Len(its) THEN [items |-> its, log |-> log]
    ELSE LET r == update_quality(its[k], oc, now)
             its1 == [its EXCEPT ![k] = r.item]
         IN IF r.panic # "none"
            THEN [items |-> its1, log |-> Append(log, r)]
            ELSE for_each(its1, k + 1, oc, now, Append(log, r))

\* the iteration starting one item late
GildedRose_update_quality_skip_first(its, oc, now) == for_each(its, 2, oc, now, <<>>)

GildedRose_update_quality(its, oc, now) == for_each(its, 1, oc, now, <<>>)

(***************************************************************************)
(* Inputs: the names, counters and behaviors items are constructed with.   *)
(***************************************************************************)
NORMAL_ITEM == <<"N","o","r","m","a","l"," ","I","t","e","m">>
CUSTOM_ITEM == <<"C","u","s","t","o","m"," ","I","t","e","m">>

Names ==
    { AGED_BRIE, BACKSTAGE, SULFURAS, CONJURED, NORMAL_ITEM,
      CONJURED \o <<" ">> \o AGED_BRIE,
      SULFURAS \o <<" ">> \o BACKSTAGE,
      CONJURED \o <<" ">> \o SULFURAS,
      <<"a","g","e","d"," ","b","r","i","e">>,
      SubSeq(BACKSTAGE, 1, 16) }

SellIns == { I32_MIN, 0, 1, 6, 11 }

Qualities == { I32_MIN, -10, 0, 1, 20, 49, 80, I32_MAX }

Behaviors ==
    { Constant,
      standard_decrease,
      conjured_items,
      Decrease(I32_MAX, 0, 50),
      standard_increase,
      Increase(5, 10, 100),
      backstage_passes_items,
      new_time_sensitive_default_quality(<<Threshold(3, 18), Threshold(20, 2)>>),
      new_time_sensitive_default_quality(<<Threshold(5, 3), Threshold(5, 7)>>),
      new_time_sensitive_default_quality(<<Threshold(5, 7), Threshold(5, 3)>>),
      TimeSensitiveIncrease(10, 100, <<Threshold(15, 1), Threshold(10, 3)>>, 5),
      TimeSensitiveIncrease(50, 0, <<>>, 0) }

\* the item under study, in either shape
Subjects ==
    { Item_new(n, s, q) : n \in Names, s \in SellIns, q \in Qualities }
    \cup { ItemV2_new(CUSTOM_ITEM, s, q, b, 0) :
             s \in SellIns, q \in Qualities, b \in Behaviors }

\* the items it shares the collection with
Companions ==
    { <<>>,
      <<Item_new(AGED_BRIE, 5, 30), Item_new(CONJURED, 3, 15)>> }

\* Vec<T> holds one shape only
Collections ==
    LET shaped(x, c) == IF IsV2(x) THEN [i \in DOMAIN c |-> from_item(c[i], 0)] ELSE c
    IN { <<x>> \o shaped(x, c) : x \in Subjects, c \in Companions }
       \cup { shaped(x, c) \o <<x>> : x \in Subjects, c \in Companions }

(***************************************************************************)
(* State                                                                   *)
(*   items            GildedRose.items                                     *)
(*   overflow_checks  the build profile's overflow-checks setting          *)
(*   panicked         a call unwound; the run is over                      *)
(*   ticks            ticks started so far (the clock of the timestamps)   *)
(*   resolved         what the last get_behavior call of a caller returned *)
(*   hist             per item: the sell_in and quality it was built with, *)
(*                    the calls of update_quality, whether one wrote       *)
(*                    quality, whether one began at or below               *)
(*                    drop_quality_after, how the last one ended; calls    *)
(*                    counts the calls begun, n those that returned        *)
(*   snapshot,pending a tick whose per-item calls are made in any order    *)
(***************************************************************************)
hist0(item) ==
    [sell_in0 |-> item.sell_in, quality0 |-> item.quality, calls |-> 0, n |-> 0,
     written |-> FALSE, dropped |-> FALSE, panic |-> "none"]

\* the record of one call of update_quality on item `pre` with outcome r
note(h, pre, r) ==
    LET b == get_behavior(pre)
    IN [h EXCEPT !.calls = h.calls + 1,
                 !.n = IF r.panic = "none" THEN h.n + 1 ELSE h.n,
                 !.written = h.written \/ r.wrote,
                 !.dropped = h.dropped
                               \/ (/\ b.kind = "TimeSensitiveIncrease"
                                   /\ pre.sell_in <= b.drop_quality_after),
                 !.panic = r.panic]

Init ==
    /\ items \in Collections
    /\ overflow_checks \in BOOLEAN
    /\ panicked = FALSE
    /\ ticks = 0
    /\ resolved = <<>>
    /\ hist = [i \in DOMAIN items |-> hist0(items[i])]
    /\ snapshot = <<>>
    /\ pending = {}

\* GildedRose::update_quality
Tick ==
    /\ ~panicked
    /\ snapshot = <<>>
    /\ ticks < MaxTicks
    /\ LET r == GildedRose_update_quality(items, overflow_checks, ticks + 1)
       IN /\ items' = r.items
          /\ hist' = [i \in DOMAIN hist |->
                        IF i <= Len(r.log) THEN note(hist[i], items[i], r.log[i])
                        ELSE hist[i]]
          /\ panicked' = (r.log # <<>> /\ r.log[Len(r.log)].panic # "none")
    /\ ticks' = ticks + 1
    /\ UNCHANGED <<overflow_checks, resolved, snapshot, pending>>

\* a caller asks an item for its behavior
GetBehavior(i) ==
    /\ ~panicked
    /\ snapshot = <<>>
    /\ resolved' = <<i, get_behavior(items[i])>>
    /\ UNCHANGED <<items, overflow_checks, panicked, ticks, hist, snapshot, pending>>

Next ==
    \/ Tick
    \/ \E i \in DOMAIN items : GetBehavior(i)

Spec == Init /\ [][Next]_vars

(***************************************************************************)
(* The same tick with the per-item calls of for_each made in any order:    *)
(* BeginTick hands every item out, UpdateOne makes one item's call,        *)
(* EndTick collects the tick once no call is outstanding.                  *)
(***************************************************************************)
BeginTick ==
    /\ ~panicked
    /\ snapshot = <<>>
    /\ ticks < MaxTicks
    /\ snapshot' = items
    /\ pending' = DOMAIN items
    /\ ticks' = ticks + 1
    /\ UNCHANGED <<items, overflow_checks, panicked, resolved, hist>>

UpdateOne(i) ==
    /\ ~panicked
    /\ i \in pending
    /\ LET r == update_quality(items[i], overflow_checks, ticks)
       IN /\ items' = [items EXCEPT ![i] = r.item]
          /\ hist' = [hist EXCEPT ![i] = note(hist[i], items[i], r)]
          /\ panicked' = (r.panic # "none")
    /\ pending' = pending \ {i}
    /\ UNCHANGED <<overflow_checks, ticks, resolved, snapshot>>

EndTick ==
    /\ ~panicked
    /\ snapshot # <<>>
    /\ pending = {}
    /\ snapshot' = <<>>
    /\ UNCHANGED <<items, overflow_checks, panicked, ticks, resolved, hist, pending>>

NextAnyOrder ==
    \/ BeginTick
    \/ \E i \in DOMAIN items : UpdateOne(i)
    \/ EndTick

SpecAnyOrder == Init /\ [][NextAnyOrder]_vars

(***************************************************************************)
(* Properties                                                              *)
(***************************************************************************)
BehaviorOf(i) == get_behavior(items[i])

\* a behavior that has bounds, and has them the right way round
Bounded(b) == b.kind # "Constant" /\ b.min_quality <= b.max_quality

InBounds(q, b) == b.min_quality <= q /\ q <= b.max_quality

\* the step makes a call of update_quality on item i / one that returns
Called(i) == hist'[i].calls = hist[i].calls + 1

Returned(i) == hist'[i].n = hist[i].n + 1

\* a - b and a + b over the integers, cut to the i32 range (the bounds of a
\* behavior are i32 values, so clamping the cut value is clamping the true one)
sat_sub(a, b) ==
    IF sub_overflows(a, b) THEN (IF b > 0 THEN I32_MIN ELSE I32_MAX) ELSE a - b

sat_add(a, b) ==
    IF add_overflows(a, b) THEN (IF b > 0 THEN I32_MAX ELSE I32_MIN) ELSE a + b

\* C1: whatever quality an item was built with, once update_quality has
\* written it the quality lies within [min_quality, max_quality] of the
\* item's behavior, after every tick.
C1_QualityWithinBounds ==
    \A i \in DOMAIN items :
        (hist[i].written /\ Bounded(BehaviorOf(i)))
            => InBounds(items[i].quality, BehaviorOf(i))

\* an item built outside its bounds has been pulled into them and ticked again
C1_Witness ==
    \E i \in DOMAIN items :
        /\ Bounded(BehaviorOf(i))
        /\ ~InBounds(hist[i].quality0, BehaviorOf(i))
        /\ hist[i].n >= 2
        /\ InBounds(items[i].quality, BehaviorOf(i))

\* C2: an item whose behavior is Constant keeps the quality and the sell_in
\* it was built with, however many updates it went through.
C2_ConstantUntouched ==
    \A i \in DOMAIN items :
        BehaviorOf(i).kind = "Constant"
            => /\ items[i].quality = hist[i].quality0
               /\ items[i].sell_in = hist[i].sell_in0

C2_Witness ==
    \E i \in DOMAIN items :
        /\ BehaviorOf(i).kind = "Constant"
        /\ hist[i].n >= 2
        /\ items[i].quality = hist[i].quality0
        /\ items[i].sell_in = hist[i].sell_in0

\* C3: update_quality never fails: whatever i32 values the item and a
\* behavior with min_quality <= max_quality hold, the call returns normally
\* and leaves the quality within the bounds.
C3_NeverFails ==
    \A i \in DOMAIN items :
        Bounded(BehaviorOf(i))
            => /\ hist[i].panic = "none"
               /\ hist[i].calls > 0 => InBounds(items[i].quality, BehaviorOf(i))

\* the arithmetic of one Decrease / Increase / tiered update stays within i32
DecreaseInRange(item, b) ==
    /\ (item.sell_in <= 0 => ~add_overflows(b.rate, b.rate))
    /\ ~sub_overflows(item.quality, IF item.sell_in <= 0 THEN b.rate + b.rate ELSE b.rate)

\* C4: one update of a Decrease{rate,min,max} item sets quality to
\* clamp(quality - effective_rate, min, max), effective_rate being rate*2 when
\* the sell_in the update starts with is <= 0 and rate otherwise.
C4_DecreaseRule ==
    [][\A i \in DOMAIN items :
          LET b == BehaviorOf(i)
              q == items[i].quality
          IN (Returned(i) /\ b.kind = "Decrease" /\ Bounded(b))
                => items'[i].quality =
                     clamp(IF items[i].sell_in <= 0
                           THEN sat_sub(sat_sub(q, b.rate), b.rate)
                           ELSE sat_sub(q, b.rate),
                           b.min_quality, b.max_quality)]_vars

\* C4, for the updates whose arithmetic stays within i32
C4_DecreaseRuleInRange ==
    [][\A i \in DOMAIN items :
          LET b == BehaviorOf(i)
              q == items[i].quality
          IN (Returned(i) /\ b.kind = "Decrease" /\ Bounded(b)
                /\ DecreaseInRange(items[i], b))
                => items'[i].quality =
                     clamp(q - (IF items[i].sell_in <= 0 THEN b.rate * 2 ELSE b.rate),
                           b.min_quality, b.max_quality)]_vars

\* the thresholds an update starting at sell_in satisfies, and the tightest
\* of them, by position in the list
Qualifying(thresholds, sell_in) ==
    { k \in DOMAIN thresholds : sell_in <= thresholds[k].days_left }

Tightest(thresholds, sell_in) ==
    { k \in Qualifying(thresholds, sell_in) :
        \A j \in Qualifying(thresholds, sell_in) :
            thresholds[k].days_left <= thresholds[j].days_left }

\* the increase rates the tightest satisfied tier offers; 1 without any tier
TightestRates(thresholds, sell_in) ==
    IF Qualifying(thresholds, sell_in) = {} THEN {1}
    ELSE { thresholds[k].increase_rate : k \in Tightest(thresholds, sell_in) }

Reordered(thresholds, p) == [k \in DOMAIN thresholds |-> thresholds[p[k]]]

\* C5: above drop_quality_after, a TimeSensitiveIncrease item gains the
\* increase_rate of the satisfied threshold with the smallest days_left (1 if
\* none is satisfied), whatever the order of the thresholds list, and the new
\* quality is clamp(quality + increase, min_quality, max_quality).
C5_TieredIncrease ==
    [][\A i \in DOMAIN items :
          LET b == BehaviorOf(i)
              q == items[i].quality
              s == items[i].sell_in
          IN (Returned(i) /\ b.kind = "TimeSensitiveIncrease" /\ Bounded(b)
                /\ s > b.drop_quality_after)
                => /\ \A p \in Permutations(DOMAIN b.thresholds) :
                         increase_of(Reordered(b.thresholds, p), s)
                           = increase_of(b.thresholds, s)
                   /\ \E r \in TightestRates(b.thresholds, s) :
                         items'[i].quality
                           = clamp(sat_add(q, r), b.min_quality, b.max_quality)]_vars

\* C5, for the updates whose sum stays within i32, with the tie between
\* thresholds of equal days_left going to the first of them in the list
C5_TieredIncreaseInRange ==
    [][\A i \in DOMAIN items :
          LET b == BehaviorOf(i)
              q == items[i].quality
              s == items[i].sell_in
              t == Tightest(b.thresholds, s)
              r == IF t = {} THEN 1
                   ELSE b.thresholds[CHOOSE k \in t : \A j \in t : k <= j].increase_rate
          IN (Returned(i) /\ b.kind = "TimeSensitiveIncrease" /\ Bounded(b)
                /\ s > b.drop_quality_after /\ ~add_overflows(q, r))
                => items'[i].quality = clamp(q + r, b.min_quality, b.max_quality)]_vars

\* C6: an update of a TimeSensitiveIncrease item that starts with
\* sell_in <= drop_quality_after sets quality to min_quality exactly,
\* whatever the quality and the thresholds were.
C6_DropToMin ==
    [][\A i \in DOMAIN items :
          LET b == BehaviorOf(i)
          IN (Called(i) /\ b.kind = "TimeSensitiveIncrease"
                /\ items[i].sell_in <= b.drop_quality_after)
                => items'[i].quality = b.min_quality]_vars

\* an item built with another quality has been reset to a min_quality
\* other than 0
C6_Witness ==
    \E i \in DOMAIN items :
        /\ BehaviorOf(i).kind = "TimeSensitiveIncrease"
        /\ hist[i].dropped
        /\ BehaviorOf(i).min_quality # 0
        /\ hist[i].quality0 # BehaviorOf(i).min_quality
        /\ items[i].quality = BehaviorOf(i).min_quality

\* C7: every update of a non-Constant item takes exactly 1 off sell_in,
\* whether or not the quality moved: after n updates sell_in is the initial
\* value minus n.
C7_SellInCountsDown ==
    \A i \in DOMAIN items :
        BehaviorOf(i).kind # "Constant"
            => /\ hist[i].sell_in0 >= I32_MIN + hist[i].n
               /\ items[i].sell_in = hist[i].sell_in0 - hist[i].n

\* C7, for the items whose sell_in stays within i32
C7_SellInCountsDownInRange ==
    \A i \in DOMAIN items :
        (BehaviorOf(i).kind # "Constant" /\ hist[i].sell_in0 >= I32_MIN + MaxTicks)
            => items[i].sell_in = hist[i].sell_in0 - hist[i].n

\* C10: once an update of a TimeSensitiveIncrease item has started with
\* sell_in <= drop_quality_after, the quality is min_quality after that
\* update and after every later one.
C10_StaysDropped ==
    \A i \in DOMAIN items :
        (BehaviorOf(i).kind = "TimeSensitiveIncrease" /\ hist[i].dropped)
            => items[i].quality = BehaviorOf(i).min_quality

\* C10, for the items whose sell_in stays within i32
C10_StaysDroppedInRange ==
    \A i \in DOMAIN items :
        (BehaviorOf(i).kind = "TimeSensitiveIncrease" /\ hist[i].dropped
            /\ hist[i].sell_in0 >= I32_MIN + MaxTicks)
            => items[i].quality = BehaviorOf(i).min_quality

\* the tokens looked for in a name, in priority order, with their behaviors
Catalog ==
    << <<AGED_BRIE, Increase(1, 0, 50)>>,
       <<BACKSTAGE, TimeSensitiveIncrease(0, 50, <<Threshold(10, 2), Threshold(5, 3)>>, 0)>>,
       <<SULFURAS, Constant>>,
       <<CONJURED, Decrease(2, 0, 50)>> >>

\* the behavior of the first token of the catalog the name contains
Catalogued(name) ==
    LET found == { k \in DOMAIN Catalog : contains(name, Catalog[k][1]) }
    IN IF found = {} THEN Decrease(1, 0, 50)
       ELSE Catalog[CHOOSE k \in found : \A j \in found : k <= j][2]

\* C8: Item::get_behavior answers with the behavior of the first token, in
\* the order Aged Brie, Backstage passes, Sulfuras, Conjured, that the name
\* contains, Decrease(rate 1) if it contains none, and changes no item.
C8_ResolvedByName ==
    [][resolved' # resolved
          => /\ items' = items
             /\ ~IsV2(items[resolved'[1]])
                  => resolved'[2] = Catalogued(items[resolved'[1]].name)]_vars

\* a name holding two tokens, the later one of the order first, was resolved
C8_Witness ==
    /\ resolved # <<>>
    /\ ~IsV2(items[resolved[1]])
    /\ items[resolved[1]].name = CONJURED \o <<" ">> \o AGED_BRIE
    /\ resolved[2] = Increase(1, 0, 50)

====
